---- MODULE Spec2Model ----
(***************************************************************************)
(* Model of the feedback pipeline of src/main_app.py: the batch loop of    *)
(* main() and the per-item deliberation of process_single_item().          *)
(*                                                                         *)
(* Text is modelled as a sequence of tokens.  A token stands for a piece   *)
(* of text:                                                                *)
(*   "LB" "RB" "COMMA"      the characters  {  }  ,                        *)
(*   a member of Keys       a JSON key with its colon, e.g.  "title":      *)
(*   "TE"                   the key  "\u0074itle":  (title, with an escape) *)
(*   a member of StrToks    a JSON string literal                          *)
(*   "WT"                   prose that contains the letters  title         *)
(*   "AP"                   the word APPROVED                              *)
(*   anything else          prose without braces, title or APPROVED        *)
(* A JSON document is a dict: a sequence of <<key, value>> pairs in        *)
(* insertion order (as a Python dict keeps them); a value is a string or   *)
(* a nested dict.                                                          *)
(***************************************************************************)
EXTENDS Integers, Sequences, FiniteSets, TLC

VARIABLES
    items,        \* main: the list of feedback items built from the CSVs
    outs,         \* the texts a stage's model call can return
    idx,          \* main: number of items the for-loop has taken so far
    pc,           \* "loop" | "start" | "running" | "ended" | "returned" | "done"
    turns_taken,  \* team: stage responses produced in the current run
    reason,       \* why the current run ended: "None" | "Approved" | "MaxTurnsReached" | "Error"
    stream,       \* messages yielded by run_stream in the current run
    invoked,      \* stages whose model call was made in the current run
    final_json,   \* process_single_item: the accepted candidate ({} = <<>>)
    result,       \* value returned by process_single_item
    all_tickets   \* main: the records collected so far

vars == <<items, outs, idx, pc, turns_taken, reason, stream, invoked,
          final_json, result, all_tickets>>

-----------------------------------------------------------------------------
(* Bounds *)

MaxItems == 2

-----------------------------------------------------------------------------
(* Tokens and JSON values *)

Keys == {"title", "category", "priority", "details", "steps", "error"}

\* key tokens a text can hold, and the key each one decodes to
KeyToks == Keys \cup {"TE"}

KeyName(tok) == IF tok = "TE" THEN "title" ELSE tok

StrToks == {"SA", "SB", "SX", "Bug", "High"}

StrV(s) == [isobj |-> FALSE, str |-> s, obj |-> <<>>]

ObjV(d) == [isobj |-> TRUE, str |-> "", obj |-> d]

\* key in dict
HasKey(d, k) == \E n \in 1..Len(d) : d[n][1] = k

\* dict.get(key, default)
Get(d, k, default) ==
    IF HasKey(d, k)
    THEN d[CHOOSE n \in 1..Len(d) : d[n][1] = k][2]
    ELSE default

\* dict[key] = value: a repeated key keeps its place, the last value wins
Put(d, k, v) ==
    IF HasKey(d, k)
    THEN [n \in 1..Len(d) |-> IF d[n][1] = k THEN <<k, v>> ELSE d[n]]
    ELSE Append(d, <<k, v>>)

\* sub in text, for one-token needles
Contains(text, tok) == \E n \in 1..Len(text) : text[n] = tok

\* "title" in text: the key  "title":  and prose mentioning title both match
MentionsTitle(text) == \E n \in 1..Len(text) : text[n] \in {"title", "WT"}

\* str.find: 0-based index of the first occurrence, -1 when absent
Find(text, tok) ==
    IF Contains(text, tok)
    THEN (CHOOSE n \in 1..Len(text) :
             text[n] = tok /\ \A m \in 1..(n-1) : text[m] # tok) - 1
    ELSE -1

\* str.rfind: 0-based index of the last occurrence, -1 when absent
RFind(text, tok) ==
    IF Contains(text, tok)
    THEN (CHOOSE n \in 1..Len(text) :
             text[n] = tok /\ \A m \in (n+1)..Len(text) : text[m] # tok) - 1
    ELSE -1

\* text[start:end] for 0 <= start, 0 <= end
Slice(text, start, end) == SubSeq(text, start + 1, end)

ParseFail == [ok |-> FALSE, next |-> 0, val |-> StrV("")]

RECURSIVE ParseValue(_, _)
RECURSIVE ParseMembers(_, _, _)

\* members of an object from position n on, up to and including its "}"
ParseMembers(s, n, acc) ==
    IF n + 1 > Len(s) \/ s[n] \notin KeyToks THEN ParseFail
    ELSE LET v == ParseValue(s, n + 1) IN
         IF ~v.ok \/ v.next > Len(s) THEN ParseFail
         ELSE LET acc2 == Put(acc, KeyName(s[n]), v.val) IN
              IF s[v.next] = "RB"
              THEN [ok |-> TRUE, next |-> v.next + 1, val |-> ObjV(acc2)]
              ELSE IF s[v.next] = "COMMA"
              THEN ParseMembers(s, v.next + 1, acc2)
              ELSE ParseFail

\* one JSON value starting at position n
ParseValue(s, n) ==
    IF n > Len(s) THEN ParseFail
    ELSE IF s[n] \in StrToks
    THEN [ok |-> TRUE, next |-> n + 1, val |-> StrV(s[n])]
    ELSE IF s[n] = "LB"
    THEN IF n + 1 <= Len(s) /\ s[n + 1] = "RB"
         THEN [ok |-> TRUE, next |-> n + 2, val |-> ObjV(<<>>)]
         ELSE ParseMembers(s, n + 1, <<>>)
    ELSE ParseFail

\* json.loads: the whole text must be one value; ok = FALSE models the raise
Loads(s) ==
    LET v == ParseValue(s, 1) IN
    IF v.ok /\ v.next = Len(s) + 1 THEN v ELSE ParseFail

RECURSIVE Dumps(_)
RECURSIVE DumpsMembers(_, _)

DumpsMembers(d, n) ==
    IF n > Len(d) THEN <<>>
    ELSE <<d[n][1]>> \o Dumps(d[n][2])
         \o (IF n < Len(d) THEN <<"COMMA">> ELSE <<>>)
         \o DumpsMembers(d, n + 1)

\* json.dumps
Dumps(v) ==
    IF v.isobj THEN <<"LB">> \o DumpsMembers(v.obj, 1) \o <<"RB">>
    ELSE <<v.str>>

-----------------------------------------------------------------------------
(* process_single_item *)

\* the agents, in the order the team is given them
Participants ==
    <<"Feedback_Classifier", "Bug_Analyst", "Feature_Extractor",
      "Ticket_Creator", "Quality_Critic">>

MaxTurns == 6

\* variant: the order does not wrap around, the last agent keeps the floor
NextSpeakerNoWrap(turn) ==
    Participants[IF turn + 1 > Len(Participants) THEN Len(Participants) ELSE turn + 1]

\* RoundRobinGroupChat: the speaker after `turn` responses
NextSpeaker(turn) == Participants[(turn % Len(Participants)) + 1]

\* variant: the message must be the word alone
TerminatesExact(content) == content = <<"AP">>

\* TextMentionTermination("APPROVED")
Terminates(content) == Contains(content, "AP")

\* the f-string task_msg: the id and the feedback text inside the template
TaskMsg(row_id, text) ==
    <<"PROCESS", row_id>> \o text \o <<"PIPELINE", "approval">>

\* variant: any JSON object is taken, with or without a title
ScanMessageAnyObject(fj, content) ==
    IF Contains(content, "LB") /\ MentionsTitle(content)
    THEN LET data == Loads(Slice(content, Find(content, "LB"),
                                 RFind(content, "RB") + 1))
         IN  IF data.ok /\ data.val.isobj THEN data.val.obj ELSE fj
    ELSE fj

\* variant: a message that yields no candidate clears the accepted one
ScanMessageResetOnInvalid(fj, content) ==
    IF Contains(content, "LB") /\ MentionsTitle(content)
    THEN LET data == Loads(Slice(content, Find(content, "LB"),
                                 RFind(content, "RB") + 1))
         IN  IF data.ok /\ data.val.isobj /\ HasKey(data.val.obj, "title")
             THEN data.val.obj
             ELSE <<>>
    ELSE fj

\* the body of the async-for loop for one message whose content is a str
ScanMessage(fj, content) ==
    IF Contains(content, "LB") /\ MentionsTitle(content)
    THEN LET start   == Find(content, "LB")
             end     == RFind(content, "RB") + 1
             snippet == Slice(content, start, end)
             data    == Loads(snippet)
         IN  IF data.ok /\ data.val.isobj /\ HasKey(data.val.obj, "title")
             THEN data.val.obj
             ELSE fj
    ELSE fj

\* variant: the title leaves the id out
FallbackNoId(row_id) ==
    << <<"title", StrV("Error Processing ")>>,
       <<"category", StrV("Error")>>,
       <<"priority", StrV("Low")>>,
       <<"details", ObjV(<< <<"error", StrV("Agents did not produce valid JSON")>> >>)>> >>

\* the default returned when final_json is empty
Fallback(row_id) ==
    << <<"title", StrV("Error Processing " \o row_id)>>,
       <<"category", StrV("Error")>>,
       <<"priority", StrV("Low")>>,
       <<"details", ObjV(<< <<"error", StrV("Agents did not produce valid JSON")>> >>)>> >>

\* the tail of process_single_item
ProcessResult(fj, row_id) ==
    IF fj = <<>> THEN Fallback(row_id) ELSE fj

\* variant: the cap is tested one turn late
AfterMessageLateCap(content, turns) ==
    IF Terminates(content) THEN [pc |-> "ended", reason |-> "Approved"]
    ELSE IF turns > MaxTurns THEN [pc |-> "ended", reason |-> "MaxTurnsReached"]
    ELSE [pc |-> "running", reason |-> "None"]

\* where a run stands after a message that no exception interrupted
AfterMessage(content, turns) ==
    IF Terminates(content) THEN [pc |-> "ended", reason |-> "Approved"]
    ELSE IF turns >= MaxTurns THEN [pc |-> "ended", reason |-> "MaxTurnsReached"]
    ELSE [pc |-> "running", reason |-> "None"]

\* variant: the failed call is made again
OnExceptionRetry == [pc |-> "running", reason |-> "Error"]

\* the except clause: the exception is printed and the run is over
OnException == [pc |-> "ended", reason |-> "Error"]

-----------------------------------------------------------------------------
(* main *)

\* the ticket dict built from an item and its result
TicketRecord(item, res) ==
    [ticket_id   |-> "TKT-" \o item.id,
     title       |-> Get(res, "title", StrV("Untitled")),
     category    |-> Get(res, "category", StrV("Uncategorized")),
     priority    |-> Get(res, "priority", StrV("Low")),
     details     |-> Dumps(Get(res, "details", ObjV(<<>>))),
     source_id   |-> item.id,
     source_type |-> item.type]

\* variant: a fallback result is not recorded
CollectUnlessError(tickets, ticket) ==
    IF ticket.category = StrV("Error") THEN tickets ELSE Append(tickets, ticket)

\* all_tickets.append(ticket)
Collect(tickets, ticket) == Append(tickets, ticket)

-----------------------------------------------------------------------------
(* Inputs *)

PlainText    == <<"W">>
TicketText   == <<"LB", "title", "SX", "RB">>
ApprovedText == <<"W", "AP">>

ItemPool ==
    { [id |-> "R1", type |-> "Review", text |-> PlainText],
      [id |-> "R2", type |-> "Review", text |-> TicketText],
      [id |-> "E1", type |-> "Email",  text |-> ApprovedText] }

OutPlain      == <<"W", "approved">>
OutClassify   == <<"LB", "category", "Bug", "COMMA", "priority", "High", "RB">>
OutTicketA    == <<"W", "LB", "title", "SA", "COMMA", "category", "Bug", "COMMA",
                   "details", "LB", "steps", "SA", "RB", "RB", "W">>
OutTicketB    == <<"LB", "title", "SB", "RB">>
OutNoTitleKey == <<"WT", "LB", "category", "Bug", "RB">>
OutTruncated  == <<"LB", "title", "SA">>
OutTicketEsc  == <<"LB", "TE", "SB", "RB">>
OutApproved   == <<"AP">>
OutTicketAp   == <<"LB", "title", "SB", "COMMA", "title", "SA", "RB", "AP">>

StageOutputs ==
    {OutPlain, OutTicketA, OutTicketB, OutNoTitleKey, OutTruncated,
     OutTicketEsc, OutApproved, OutTicketAp}

BatchOutputs == {OutClassify, OutTicketA, OutTicketEsc, OutApproved}

RECURSIVE SeqsUpTo(_, _)
SeqsUpTo(S, n) ==
    IF n = 0 THEN {<<>>}
    ELSE LET shorter == SeqsUpTo(S, n - 1) IN
         shorter \cup {Append(s, x) : s \in shorter, x \in S}

-----------------------------------------------------------------------------
(* Actions *)

Item == items[idx]

InitRest ==
    /\ idx = 0
    /\ pc = "loop"
    /\ turns_taken = 0
    /\ reason = "None"
    /\ stream = <<>>
    /\ invoked = <<>>
    /\ final_json = <<>>
    /\ result = <<>>
    /\ all_tickets = <<>>

\* one item, any stage output
Init ==
    /\ items \in {<<it>> : it \in ItemPool}
    /\ outs = StageOutputs
    /\ InitRest

\* main appends the reviews first, the emails after them
ReviewsFirst(s) ==
    \A m, n \in 1..Len(s) :
        (m < n /\ s[m].type = "Email") => s[n].type = "Email"

\* a batch of up to MaxItems items
InitBatch ==
    /\ items \in {s \in SeqsUpTo(ItemPool, MaxItems) : ReviewsFirst(s)}
    /\ outs = BatchOutputs
    /\ InitRest

\* main takes the next item and calls process_single_item, up to run_stream
StartItem ==
    /\ pc = "loop"
    /\ idx < Len(items)
    /\ idx' = idx + 1
    /\ pc' = "start"
    /\ turns_taken' = 0
    /\ reason' = "None"
    /\ stream' = <<>>
    /\ invoked' = <<>>
    /\ final_json' = <<>>
    /\ result' = <<>>
    /\ UNCHANGED <<items, outs, all_tickets>>

\* the stream yields the task message; the loop body scans it; the team checks
\* its termination condition on it
DeliverTask ==
    /\ pc = "start"
    /\ LET content == TaskMsg(Item.id, Item.text)
           after   == AfterMessage(content, turns_taken)
       IN  /\ stream' = <<[source |-> "user", content |-> content]>>
           /\ final_json' = ScanMessage(final_json, content)
           /\ pc' = after.pc
           /\ reason' = after.reason
    /\ UNCHANGED <<items, outs, idx, turns_taken, invoked, result, all_tickets>>

\* the next stage answers; the stream yields its message; the loop body scans it
StageTurn ==
    /\ pc = "running"
    /\ \E content \in outs :
         LET speaker == NextSpeaker(turns_taken)
             after   == AfterMessage(content, turns_taken + 1)
         IN  /\ invoked' = Append(invoked, speaker)
             /\ stream' = Append(stream, [source |-> speaker, content |-> content])
             /\ turns_taken' = turns_taken + 1
             /\ final_json' = ScanMessage(final_json, content)
             /\ pc' = after.pc
             /\ reason' = after.reason
    /\ UNCHANGED <<items, outs, idx, result, all_tickets>>

\* the next stage's model call raises; the except clause catches it
StageFails ==
    /\ pc = "running"
    /\ invoked' = Append(invoked, NextSpeaker(turns_taken))
    /\ pc' = OnException.pc
    /\ reason' = OnException.reason
    /\ UNCHANGED <<items, outs, idx, turns_taken, stream, final_json, result,
                   all_tickets>>

\* process_single_item returns
ReturnResult ==
    /\ pc = "ended"
    /\ result' = ProcessResult(final_json, Item.id)
    /\ pc' = "returned"
    /\ UNCHANGED <<items, outs, idx, turns_taken, reason, stream, invoked,
                   final_json, all_tickets>>

\* main builds the ticket and appends it
AppendTicket ==
    /\ pc = "returned"
    /\ all_tickets' = Collect(all_tickets, TicketRecord(Item, result))
    /\ pc' = "loop"
    /\ UNCHANGED <<items, outs, idx, turns_taken, reason, stream, invoked,
                   final_json, result>>

\* the loop is over; main saves the results
SaveResults ==
    /\ pc = "loop"
    /\ idx = Len(items)
    /\ pc' = "done"
    /\ UNCHANGED <<items, outs, idx, turns_taken, reason, stream, invoked,
                   final_json, result, all_tickets>>

Next ==
    \/ StartItem
    \/ DeliverTask
    \/ StageTurn
    \/ StageFails
    \/ ReturnResult
    \/ AppendTicket
    \/ SaveResults

Spec == Init /\ [][Next]_vars

SpecBatch == InitBatch /\ [][Next]_vars

-----------------------------------------------------------------------------
(* Vocabulary of the properties *)

\* the first "{" to the last "}" of a text ("" when there is no such substring)
Braced(content) ==
    IF Contains(content, "LB")
    THEN Slice(content, Find(content, "LB"), RFind(content, "RB") + 1)
    ELSE <<>>

\* the text holds a candidate: its braced substring parses as a JSON object
\* that has a title field
IsCandidate(content) ==
    LET data == Loads(Braced(content)) IN
    data.ok /\ data.val.isobj /\ HasKey(data.val.obj, "title")

CandidateOf(content) == Loads(Braced(content)).val.obj

\* the message of turn t is stream[t + 1]: stream[1] is the task message
TurnsWithCandidate ==
    {t \in 1..(Len(stream) - 1) : IsCandidate(stream[t + 1].content)}

LastOf(S) == CHOOSE t \in S : \A u \in S : u <= t

ExactFallback(row_id) ==
    << <<"title", StrV("Error Processing " \o row_id)>>,
       <<"category", StrV("Error")>>,
       <<"priority", StrV("Low")>>,
       <<"details", ObjV(<< <<"error", StrV("Agents did not produce valid JSON")>> >>)>> >>

StageOrder ==
    <<"Feedback_Classifier", "Bug_Analyst", "Feature_Extractor",
      "Ticket_Creator", "Quality_Critic">>

-----------------------------------------------------------------------------
(* Properties *)

\* C1: the batch loop produces exactly one record per input item, in input
\* order: the records collected so far are those of the items already
\* processed, the k-th record carries the k-th item's id and type, and when
\* the loop is over there are as many records as items.
C1_OneRecordPerItemInOrder ==
    /\ Len(all_tickets) = (IF pc \in {"loop", "done"} THEN idx ELSE idx - 1)
    /\ \A k \in 1..Len(all_tickets) :
         /\ all_tickets[k].source_id = items[k].id
         /\ all_tickets[k].source_type = items[k].type
    /\ pc = "done" => Len(all_tickets) = Len(items)

\* a finished batch of two different items, the first one's run having
\* produced nothing (fallback), the second one's a ticket
C1_Witness ==
    /\ pc = "done"
    /\ Len(items) = 2
    /\ items[1].id # items[2].id
    /\ all_tickets[1].category = StrV("Error")
    /\ all_tickets[2].title = StrV("SA")

\* C2: when no message of the run holds a candidate, process_single_item
\* returns exactly the fallback record.
C2_NoCandidateGivesFallback ==
    (pc = "returned" /\ \A k \in 1..Len(stream) : ~IsCandidate(stream[k].content))
        => result = ExactFallback(Item.id)

\* all 6 turns elapsed without approval, some message had braces and the word
\* title but no candidate, and the fallback was returned
C2_Witness ==
    /\ pc = "returned"
    /\ reason = "MaxTurnsReached"
    /\ turns_taken = 6
    /\ \A k \in 1..Len(stream) : ~IsCandidate(stream[k].content)
    /\ \E k \in 1..Len(stream) : stream[k].content = OutNoTitleKey
    /\ \E k \in 1..Len(stream) : stream[k].content = OutTruncated

\* C3: when some turn of the run produced a candidate, the returned ticket is
\* the candidate of the highest-numbered such turn.
C3_LastValidWins ==
    (pc = "returned" /\ TurnsWithCandidate # {})
        => result = CandidateOf(stream[LastOf(TurnsWithCandidate) + 1].content)

\* C4: the number of stage invocations of a run never exceeds 6.
C4_TurnCap ==
    /\ turns_taken <= 6
    /\ Len(invoked) <= 6
    /\ Len(stream) <= 6 + 1

\* the cap was reached without approval
C4_Witness ==
    /\ reason = "MaxTurnsReached"
    /\ turns_taken = 6
    /\ Len(invoked) = 6

C6_ErrorAlwaysFallback ==
    (pc = "returned" /\ reason = "Error" /\ ~IsCandidate(stream[1].content))
        => result = ExactFallback(Item.id)

\* the text is one the loop body accepts: a candidate in a text that has the
\* letters title in it
IsAccepted(content) == IsCandidate(content) /\ MentionsTitle(content)

AcceptedIn(msgs) == {k \in 1..Len(msgs) : IsAccepted(msgs[k].content)}

\* what a run with these messages returns for this item
LastAcceptedOrFallback(msgs, row_id) ==
    IF AcceptedIn(msgs) = {}
    THEN ExactFallback(row_id)
    ELSE CandidateOf(msgs[LastOf(AcceptedIn(msgs))].content)

\* C6, amended: a run that a GenerationError ended returns the fallback record
\* when the loop had accepted no candidate from the messages streamed before
\* the error, and the last accepted candidate otherwise; no step of any run
\* changes a record already collected, and every run starts with nothing
\* accepted and an empty stream.
C6_ErrorFallbackUnlessAccepted ==
    [][ /\ (pc' = "returned" /\ reason' = "Error") =>
              result' = LastAcceptedOrFallback(stream', items'[idx'].id)
        /\ \A k \in 1..Len(all_tickets) :
              Len(all_tickets') >= k /\ all_tickets'[k] = all_tickets[k]
        /\ pc' = "start" =>
              final_json' = <<>> /\ stream' = <<>> /\ turns_taken' = 0
      ]_vars

\* the second item's run was ended by an error after a ticket had been
\* accepted; the first item's record (a fallback) is still in place
C6_Witness ==
    /\ pc = "loop"
    /\ reason = "Error"
    /\ idx = 2
    /\ Len(all_tickets) = 2
    /\ all_tickets[1].category = StrV("Error")
    /\ all_tickets[2].title = StrV("SA")

\* C7: within a run, an accepted candidate changes only by a new message that
\* holds a candidate (it is never cleared, nor replaced on an invalid
\* message), and a run that accepted one returns it, not the fallback,
\* however the run ended.
C7_AcceptedIsKept ==
    [][ /\ (final_json # <<>> /\ pc' # "start") =>
              \/ final_json' = final_json
              \/ /\ Len(stream') = Len(stream) + 1
                 /\ IsCandidate(stream'[Len(stream')].content)
                 /\ final_json' = CandidateOf(stream'[Len(stream')].content)
        /\ (pc' = "returned" /\ final_json' # <<>>) =>
              /\ result' = final_json'
              /\ result' # ExactFallback(items'[idx'].id)
      ]_vars

\* a ticket was accepted on turn 1, two invalid messages followed (JSON
\* without title, unparseable text), an error ended the run, and the accepted
\* ticket was returned
C7_Witness ==
    /\ pc = "returned"
    /\ reason = "Error"
    /\ Len(stream) = 4
    /\ stream[2].content = OutTicketA
    /\ stream[3].content = OutNoTitleKey
    /\ stream[4].content = OutTruncated
    /\ result = CandidateOf(OutTicketA)

\* C8: the stage invoked on turn n is the ((n-1) mod 5)-th of the fixed order,
\* every streamed stage message is from the stage invoked on its turn, and a
\* run that reaches the cap invoked Classifier, BugAnalyst, FeatureExtractor,
\* TicketCreator, Critic, Classifier.
C8_RoundRobinOrder ==
    /\ \A n \in 1..Len(invoked) : invoked[n] = StageOrder[((n - 1) % 5) + 1]
    /\ \A t \in 1..(Len(stream) - 1) : stream[t + 1].source = invoked[t]
    /\ Len(stream) >= 1 => stream[1].source = "user"
    /\ reason = "MaxTurnsReached" =>
          invoked = <<"Feedback_Classifier", "Bug_Analyst", "Feature_Extractor",
                      "Ticket_Creator", "Quality_Critic", "Feedback_Classifier">>

\* a run that was never approved and took its 6 turns
C8_Witness ==
    /\ pc = "ended"
    /\ reason = "MaxTurnsReached"
    /\ Len(invoked) = 6
    /\ Len(stream) = 7

\* C9: once a stage has raised, the run is over: no stage can be invoked any
\* more (the failing one was invoked once, after the turns that answered), the
\* item still gets its record, and the loop goes on to the next item.
C9_ErrorAbortsRunOnly ==
    reason = "Error" =>
        /\ pc \in {"ended", "returned", "loop", "done"}
        /\ ~ENABLED StageTurn
        /\ ~ENABLED StageFails
        /\ Len(invoked) = turns_taken + 1
        /\ Len(stream) = turns_taken + 1
        /\ pc = "ended" => ENABLED ReturnResult
        /\ pc = "returned" => ENABLED AppendTicket
        /\ pc \in {"loop", "done"} => Len(all_tickets) = idx
        /\ (pc = "loop" /\ idx < Len(items)) => ENABLED StartItem
        /\ pc = "done" => Len(all_tickets) = Len(items)

\* the first of two items failed on its 4th turn, got its record, and the
\* loop is about to take the second item
C9_Witness ==
    /\ reason = "Error"
    /\ pc = "loop"
    /\ idx = 1
    /\ Len(items) = 2
    /\ turns_taken = 3
    /\ Len(invoked) = 4
    /\ Len(all_tickets) = 1

\* C10: the accepted ticket comes from a stage output of the run, and only a
\* stage output ends the run in Approved: the task message does neither.
C10_TaskMessageIsInert ==
    /\ final_json # <<>> =>
          \E t \in 1..(Len(stream) - 1) :
              /\ IsCandidate(stream[t + 1].content)
              /\ final_json = CandidateOf(stream[t + 1].content)
    /\ reason = "Approved" =>
          \E t \in 1..(Len(stream) - 1) : Contains(stream[t + 1].content, "AP")

====
